---------------------------- MODULE Spec2Model ----------------------------
(* Model of the stor-client download pool: StorClient (Start / Download /  *)
(* Wait / processStats) and the download worker with its retry loop and    *)
(* the temp-file download (downloadFileViaTempFile / downloadFile /        *)
(* downloadFileToWriter).                                                  *)
EXTENDS Integers, Sequences, FiniteSets, TLC

(***************************************************************************)
(* Bounds of the model.                                                    *)
(***************************************************************************)
\* client.Max: size of the download pool
Max == 2
\* number of Download() calls the caller makes at most
MaxSubmit == 2
\* the same in the runs of the pool alone (InitPool)
MaxSubmitPool == 3
\* largest value of client.RetryAttempts that is explored
MaxAttempts == 2
\* capacity of pool.input and pool.output (1024 in New, scaled down)
ChanCap == 1
\* goroutines that call Download() at the same time (SpecCallers)
MaxCallers == 2

Workers == 1 .. Max

Callers == 1 .. MaxCallers

(***************************************************************************)
(* Digests and contents.                                                   *)
(***************************************************************************)
\* the zero-valued hash that is used as the end-of-work marker
workerEnd == 0

\* digests a caller asks for: the zero-valued hash and two real digests
Digests == {workerEnd, 1, 2}

RealDigests == Digests \ {workerEnd}

\* response bodies the storage may send: byte strings
ServerBodies == {<<1>>, <<2, 2>>}

\* sha256 of a byte string, as the digest it names (3: a digest nobody asks for)
Sha256(c) ==
    CASE c = <<1>> -> 1
      [] c = <<2, 2>> -> 2
      [] OTHER -> 3

\* the content the storage holds under digest d
Blob(d) == CHOOSE c \in ServerBodies : Sha256(c) = d

\* the first k bytes of c
Prefix(c, k) == SubSeq(c, 1, k)

\* a path holds no file ({}) or one file with its content ({c})
NoFile == {}

Exists(f) == f # NoFile

(***************************************************************************)
(* Errors an attempt returns.                                              *)
(*   "nil"    no error                                                     *)
(*   "dl404"  downloadError with statusCode 404                            *)
(*   "dl"     downloadError with another status code                      *)
(*   "other"  any other error value (transport, mismatch, wrapped, fs)     *)
(***************************************************************************)
Errs == {"nil", "dl404", "dl", "other"}

\* errors.Wrapf(err, ...): nil for a nil err, a wrapping error otherwise
Wrapf(e) == IF e = "nil" THEN "nil" ELSE "other"

\* the error for a response status that is not 200
downloadError(status) == IF status = 404 THEN "dl404" ELSE "dl"

\* retry.RetryIf: false only for a downloadError with statusCode 404
RetryIf(e) == e # "dl404"

\* DownStat values sent by the worker
DOWN_OK == "DOWN_OK"

DOWN_SKIP == "DOWN_SKIP"

DOWN_FAIL == "DOWN_FAIL"

DownStat(st, sz, du) == [Status |-> st, Size |-> sz, Duration |-> du]

NoStat == DownStat("none", 0, 0)

TotalStat(sz, du, cnt, ex) ==
    [Size |-> sz, Duration |-> du, Count |-> cnt, expectedDownloadCount |-> ex]

\* TotalStat.Status
Status(t) == t.Count = t.expectedDownloadCount

(***************************************************************************)
(* The set of digests that are downloaded right now (currentDownloads).    *)
(***************************************************************************)
\* ContainsOrAdd: true when the digest was absent and has been added
ContainsOrAdd(set, d) == d \notin set

AfterContainsOrAdd(set, d) == set \cup {d}

Del(set, d) == set \ {d}

\* what is remembered of an attempt: the GET was answered 404; out.Close()
\* failed; the call got past the temp path and every Remove it made succeeded
NoTry == [status404 |-> FALSE, closeFailed |-> FALSE, cleaned |-> FALSE]

\* a goroutine that is not inside Download()
Idle == [pc |-> "idle", reg |-> 0]

VARIABLES
    Devnull,                 \* client.Devnull
    RetryAttempts,           \* client.RetryAttempts
    calls,                   \* the Download() calls the caller makes at most
    callerPc,                \* where the caller of the client is
    sent,                    \* end markers sent by sendEndSignalToAllWorkers
    result,                  \* what Wait() returned
    input,                   \* pool.input
    output,                  \* pool.output
    outputClosed,            \* close(pool.output) has run
    expectedDownloadCount,   \* client.expectedDownloadCount
    wg,                      \* client.wg
    statsPc,                 \* where processStats is
    total,                   \* total of processStats
    totalChan,               \* client.total
    currentDownloads,        \* client.currentDownloads
    final,                   \* the file at the final path of each digest
    temp,                    \* the file at the ".temp" path of each digest
    pc,                      \* where each worker is
    sha,                     \* the digest a worker works on
    n,                       \* retry.Do: index of the current attempt
    err,                     \* err of the running attempt / of retry.Do
    size,                    \* size of the running attempt / of the worker
    stat,                    \* the DownStat the worker is about to send
    why,                     \* which branch of the worker built stat
    delays,                  \* the delays retry.Do slept for this digest
    tries,                   \* the attempts retry.Do made for this digest
    transient,               \* those of them that returned an error RetryIf accepts
    gets,                    \* the GET requests issued for this digest
    first404,                \* the GET of the first attempt for this digest was answered 404
    lastTry,                 \* what happened in the last attempt for this digest
    call,                    \* where each goroutine that calls Download() is
    downloads,               \* the Download() calls that have returned
    sentStats                \* what the workers have sent: Completed sizes and durations, count

callerVars == <<callerPc, sent, result>>

chanVars == <<input, output, outputClosed>>

statsVars == <<statsPc, total, totalChan>>

fileVars == <<final, temp>>

confVars == <<Devnull, RetryAttempts, calls>>

callVars == <<call, downloads>>

localVars == <<sha, n, err, size, stat, why, delays, tries, transient, gets, first404, lastTry>>

vars == <<confVars, callVars, sentStats, callerVars, chanVars, statsVars, fileVars, expectedDownloadCount,
          wg, currentDownloads, pc, localVars>>

(***************************************************************************)
(* New: the client before Start().  Files of earlier runs may exist: a     *)
(* verified file at a final path, a stale file at a temp path.             *)
(***************************************************************************)
Created ==
    /\ callerPc = "new"
    /\ sent = 0
    /\ result = TotalStat(0, 0, 0, 0)
    /\ input = <<>>
    /\ output = <<>>
    /\ outputClosed = FALSE
    /\ expectedDownloadCount = 0
    /\ wg = 0
    /\ statsPc = "none"
    /\ total = TotalStat(0, 0, 0, 0)
    /\ totalChan = <<>>
    /\ currentDownloads = {}
    /\ pc = [w \in Workers |-> "none"]
    /\ sha = [w \in Workers |-> workerEnd]
    /\ n = [w \in Workers |-> 0]
    /\ err = [w \in Workers |-> "nil"]
    /\ size = [w \in Workers |-> 0]
    /\ stat = [w \in Workers |-> NoStat]
    /\ why = [w \in Workers |-> "none"]
    /\ delays = [w \in Workers |-> 0]
    /\ tries = [w \in Workers |-> 0]
    /\ transient = [w \in Workers |-> 0]
    /\ gets = [w \in Workers |-> 0]
    /\ first404 = [w \in Workers |-> FALSE]
    /\ lastTry = [w \in Workers |-> NoTry]
    /\ call = [c \in Callers |-> Idle]
    /\ downloads = 0
    /\ sentStats = TotalStat(0, 0, 0, 0)

Init ==
    /\ Devnull \in BOOLEAN
    /\ RetryAttempts \in 1 .. MaxAttempts
    /\ calls = MaxSubmit
    /\ final \in {[d \in RealDigests |-> NoFile],
                  [d \in RealDigests |-> IF d = 1 THEN {Blob(1)} ELSE NoFile]}
    /\ temp \in {t \in {[d \in RealDigests |-> NoFile],
                         [d \in RealDigests |-> IF d = 1 THEN {<<2, 2>>} ELSE NoFile]} :
                    Devnull => t[1] = NoFile}
    /\ Created

\* the runs of the pool alone: nothing is written to disk, and the caller
\* makes more calls
InitPool ==
    /\ Devnull = TRUE
    /\ RetryAttempts = MaxAttempts
    /\ calls = MaxSubmitPool
    /\ final = [d \in RealDigests |-> NoFile]
    /\ temp = [d \in RealDigests |-> NoFile]
    /\ Created

(***************************************************************************)
(* The caller: Start(), Download(sha)*, Wait().                            *)
(***************************************************************************)
\* Start(): Max workers, the total channel and the stats goroutine
Start ==
    /\ callerPc = "new"
    /\ callerPc' = "running"
    /\ wg' = wg + Max
    /\ pc' = [w \in Workers |-> "recv"]
    /\ statsPc' = "start"
    /\ UNCHANGED <<confVars, callVars, sentStats, sent, result, chanVars, total, totalChan,
                   fileVars, expectedDownloadCount, currentDownloads, localVars>>

\* Download(sha): client.expectedDownloadCount++; client.pool.input <- sha
Download(d) ==
    /\ callerPc = "running"
    /\ expectedDownloadCount < calls
    /\ Len(input) < ChanCap
    /\ expectedDownloadCount' = expectedDownloadCount + 1
    /\ input' = Append(input, d)
    /\ downloads' = downloads + 1
    /\ UNCHANGED <<confVars, call, sentStats, callerVars, output, outputClosed, statsVars,
                   fileVars, wg, currentDownloads, pc, localVars>>

\* Download(sha) called from several goroutines: client.expectedDownloadCount++
\* is a read and a write of the field with nothing that orders them against
\* the other goroutines.  The read:
DownloadLoad(c) ==
    /\ callerPc = "running"
    /\ call[c].pc = "idle"
    /\ downloads + Cardinality({b \in Callers : call[b].pc # "idle"}) < calls
    /\ call' = [call EXCEPT ![c] = [pc |-> "store", reg |-> expectedDownloadCount]]
    /\ UNCHANGED <<confVars, downloads, sentStats, callerVars, chanVars, statsVars,
                   fileVars, expectedDownloadCount, wg, currentDownloads, pc, localVars>>

\* the write of the incremented value
DownloadStore(c) ==
    /\ call[c].pc = "store"
    /\ expectedDownloadCount' = call[c].reg + 1
    /\ call' = [call EXCEPT ![c] = [pc |-> "send", reg |-> 0]]
    /\ UNCHANGED <<confVars, downloads, sentStats, callerVars, chanVars, statsVars,
                   fileVars, wg, currentDownloads, pc, localVars>>

\* client.pool.input <- sha, and the call returns
DownloadSend(c, d) ==
    /\ call[c].pc = "send"
    /\ Len(input) < ChanCap
    /\ input' = Append(input, d)
    /\ call' = [call EXCEPT ![c] = Idle]
    /\ downloads' = downloads + 1
    /\ UNCHANGED <<confVars, sentStats, callerVars, output, outputClosed, statsVars,
                   fileVars, expectedDownloadCount, wg, currentDownloads, pc, localVars>>

\* the caller enters Wait(), after the Download() calls have returned
CallWait ==
    /\ callerPc = "running"
    /\ \A c \in Callers : call[c].pc = "idle"
    /\ callerPc' = "sendEnd"
    /\ sent' = 0
    /\ UNCHANGED <<confVars, callVars, sentStats, result, chanVars, statsVars, fileVars,
                   expectedDownloadCount, wg, currentDownloads, pc, localVars>>

\* sendEndSignalToAllWorkers: one workerEnd per worker
SendEndSignal ==
    /\ callerPc = "sendEnd"
    /\ sent < Max
    /\ Len(input) < ChanCap
    /\ input' = Append(input, workerEnd)
    /\ sent' = sent + 1
    /\ UNCHANGED <<confVars, callVars, sentStats, callerPc, result, output, outputClosed,
                   statsVars, fileVars, expectedDownloadCount, wg, currentDownloads,
                   pc, localVars>>

\* WaitClose without client.wg.Wait()
WaitCloseEarly ==
    /\ callerPc = "sendEnd"
    /\ sent = Max
    /\ outputClosed' = TRUE
    /\ callerPc' = "recvTotal"
    /\ UNCHANGED <<confVars, callVars, sentStats, sent, result, input, output, statsVars,
                   fileVars, expectedDownloadCount, wg, currentDownloads, pc,
                   localVars>>

\* client.wg.Wait(); close(client.pool.output)
WaitClose ==
    /\ callerPc = "sendEnd"
    /\ sent = Max
    /\ wg = 0
    /\ outputClosed' = TRUE
    /\ callerPc' = "recvTotal"
    /\ UNCHANGED <<confVars, callVars, sentStats, sent, result, input, output, statsVars,
                   fileVars, expectedDownloadCount, wg, currentDownloads, pc,
                   localVars>>

\* return <-client.total
WaitReturn ==
    /\ callerPc = "recvTotal"
    /\ totalChan # <<>>
    /\ result' = Head(totalChan)
    /\ totalChan' = Tail(totalChan)
    /\ callerPc' = "done"
    /\ UNCHANGED <<confVars, callVars, sentStats, sent, chanVars, statsPc, total, fileVars,
                   expectedDownloadCount, wg, currentDownloads, pc, localVars>>

(***************************************************************************)
(* processStats.                                                           *)
(***************************************************************************)
\* total := TotalStat{expectedDownloadCount: client.expectedDownloadCount}:
\* the goroutine reads the counter whenever it is first scheduled
StatsInit ==
    /\ statsPc = "start"
    /\ total' = TotalStat(0, 0, 0, expectedDownloadCount)
    /\ statsPc' = "loop"
    /\ UNCHANGED <<confVars, callVars, sentStats, callerVars, chanVars, totalChan, fileVars,
                   expectedDownloadCount, wg, currentDownloads, pc, localVars>>

\* one iteration of: for stat := range downloadStats
StatsRecv ==
    /\ statsPc = "loop"
    /\ output # <<>>
    /\ total' = TotalStat(total.Size + Head(output).Size,
                          total.Duration + Head(output).Duration,
                          total.Count + 1,
                          total.expectedDownloadCount)
    /\ output' = Tail(output)
    /\ UNCHANGED <<confVars, callVars, sentStats, callerVars, input, outputClosed, statsPc, totalChan,
                   fileVars, expectedDownloadCount, wg, currentDownloads, pc,
                   localVars>>

\* the range loop ends on the closed, drained channel: totalStat <- total
StatsEnd ==
    /\ statsPc = "loop"
    /\ output = <<>>
    /\ outputClosed
    /\ totalChan' = Append(totalChan, total)
    /\ statsPc' = "done"
    /\ UNCHANGED <<confVars, callVars, sentStats, callerVars, chanVars, total, fileVars,
                   expectedDownloadCount, wg, currentDownloads, pc, localVars>>

(***************************************************************************)
(* downloadWorker.                                                         *)
(***************************************************************************)
\* the locals of a worker that is between two digests
Cleared(w) ==
    /\ sha' = [sha EXCEPT ![w] = workerEnd]
    /\ n' = [n EXCEPT ![w] = 0]
    /\ err' = [err EXCEPT ![w] = "nil"]
    /\ size' = [size EXCEPT ![w] = 0]
    /\ stat' = [stat EXCEPT ![w] = NoStat]
    /\ why' = [why EXCEPT ![w] = "none"]
    /\ delays' = [delays EXCEPT ![w] = 0]
    /\ tries' = [tries EXCEPT ![w] = 0]
    /\ transient' = [transient EXCEPT ![w] = 0]
    /\ gets' = [gets EXCEPT ![w] = 0]
    /\ first404' = [first404 EXCEPT ![w] = FALSE]
    /\ lastTry' = [lastTry EXCEPT ![w] = NoTry]

\* the worker leaves its loop with one DownStat to send
Outcome(w, st, reason) ==
    /\ stat' = [stat EXCEPT ![w] = st]
    /\ why' = [why EXCEPT ![w] = reason]
    /\ pc' = [pc EXCEPT ![w] = "emit"]

\* for sha := range shasForDownload; a sha equal to workerEnd ends the worker
\* (defer client.wg.Done())
WorkerRecv(w) ==
    /\ pc[w] = "recv"
    /\ input # <<>>
    /\ input' = Tail(input)
    /\ IF Head(input) = workerEnd
          THEN /\ pc' = [pc EXCEPT ![w] = "exited"]
               /\ wg' = wg - 1
               /\ sha' = sha
          ELSE /\ pc' = [pc EXCEPT ![w] = "classify"]
               /\ wg' = wg
               /\ sha' = [sha EXCEPT ![w] = Head(input)]
    /\ UNCHANGED <<confVars, callVars, sentStats, callerVars, output, outputClosed, statsVars, fileVars,
                   expectedDownloadCount, currentDownloads, n, err, size, stat, why,
                   delays, tries, transient, gets, first404, lastTry>>

\* WorkerClassify without the filepath.Exists() branch
WorkerClassifyNoExists(w) ==
    /\ pc[w] = "classify"
    /\ \E newPathOk \in BOOLEAN :
          IF ~newPathOk
             THEN Outcome(w, DownStat(DOWN_FAIL, 0, 0), "newpath")
             ELSE /\ pc' = [pc EXCEPT ![w] = "claim"]
                  /\ UNCHANGED <<stat, why>>
    /\ UNCHANGED <<confVars, callVars, sentStats, callerVars, chanVars, statsVars, fileVars,
                   expectedDownloadCount, wg, currentDownloads, sha, n, err, size,
                   delays, tries, transient, gets, first404, lastTry>>

\* pathutil.NewPath of the target, then filepath.Exists()
WorkerClassify(w) ==
    /\ pc[w] = "classify"
    /\ \E newPathOk \in BOOLEAN :
          IF ~newPathOk
             THEN Outcome(w, DownStat(DOWN_FAIL, 0, 0), "newpath")
             ELSE IF Exists(final[sha[w]])
                     THEN Outcome(w, DownStat(DOWN_SKIP, 0, 0), "exists")
                     ELSE /\ pc' = [pc EXCEPT ![w] = "claim"]
                          /\ UNCHANGED <<stat, why>>
    /\ UNCHANGED <<confVars, callVars, sentStats, callerVars, chanVars, statsVars, fileVars,
                   expectedDownloadCount, wg, currentDownloads, sha, n, err, size,
                   delays, tries, transient, gets, first404, lastTry>>

\* WorkerClaim without the skip: the worker goes on whatever ContainsOrAdd says
WorkerClaimAlways(w) ==
    /\ pc[w] = "claim"
    /\ currentDownloads' = AfterContainsOrAdd(currentDownloads, sha[w])
    /\ pc' = [pc EXCEPT ![w] = "attempt"]
    /\ UNCHANGED <<confVars, callVars, sentStats, callerVars, chanVars, statsVars, fileVars,
                   expectedDownloadCount, wg, sha, n, err, size, stat, why, delays,
                   tries, transient, gets, first404, lastTry>>

\* if !client.currentDownloads.ContainsOrAdd(sha) { skip }
WorkerClaim(w) ==
    /\ pc[w] = "claim"
    /\ IF ContainsOrAdd(currentDownloads, sha[w])
          THEN /\ currentDownloads' = AfterContainsOrAdd(currentDownloads, sha[w])
               /\ pc' = [pc EXCEPT ![w] = "attempt"]
               /\ UNCHANGED <<stat, why>>
          ELSE /\ currentDownloads' = currentDownloads
               /\ Outcome(w, DownStat(DOWN_SKIP, 0, 0), "inflight")
    /\ UNCHANGED <<confVars, callVars, sentStats, callerVars, chanVars, statsVars, fileVars,
                   expectedDownloadCount, wg, sha, n, err, size, delays, tries, transient, gets,
                   first404, lastTry>>

\* RetryNextPc with a loop that ends one attempt early
RetryNextPcEarly(k, e) ==
    IF e = "nil" THEN "release"
    ELSE IF ~RetryIf(e) THEN "release"
    ELSE IF k >= RetryAttempts - 2 THEN "release"
    ELSE "delay"

\* retry.Do after an attempt returned e as attempt number k (from 0): stop on
\* success, on an error RetryIf rejects, and after the last attempt
RetryNextPc(k, e) ==
    IF e = "nil" THEN "release"
    ELSE IF ~RetryIf(e) THEN "release"
    ELSE IF k = RetryAttempts - 1 THEN "release"
    ELSE "delay"

\* downloadFileToWriter: Get, status check, io.Copy into the writer and the
\* hasher, comparison of the digests, deferred resp.Body.Close().
\* env.status 0 stands for a failed Get, env.copied for the bytes io.Copy wrote.
\* written: the bytes handed to the writer
downloadFileToWriter(d, env) ==
    LET e0 == IF env.status = 0 THEN "other"
              ELSE IF env.status # 200 THEN downloadError(env.status)
              ELSE IF env.copied < Len(env.body) THEN "other"
              ELSE IF Sha256(env.body) # d THEN "other"
              ELSE "nil"
    IN  [err |-> IF env.status # 0 /\ ~env.bodyCloseOk THEN "other" ELSE e0,
         size |-> IF e0 = "nil" THEN Len(env.body) ELSE 0,
         written |-> IF env.status = 200 THEN Prefix(env.body, env.copied) ELSE <<>>]

\* downloadFileToDevnull: downloadFileToWriter into ioutil.Discard
downloadFileToDevnull(d, env) == downloadFileToWriter(d, env)

\* downloadFile: OpenWriter, downloadFileToWriter, deferred out.Close(): on a
\* failed Close err becomes errors.Wrapf(err, ...), and of the bytes written
\* only env.kept may be in the file.  file: the file at path afterwards
downloadFile(d, env) ==
    IF ~env.openOk
       THEN [err |-> "other", size |-> 0, file |-> NoFile]
       ELSE LET r == downloadFileToWriter(d, env)
            IN  IF env.closeOk
                   THEN [err |-> r.err, size |-> r.size, file |-> {r.written}]
                   ELSE [err |-> Wrapf(r.err), size |-> r.size,
                         file |-> {Prefix(r.written, env.kept)}]

\* Cleanup that leaves the temp file where it is
CleanupKeeps(e, sz, tempFile, finalFile, env) ==
    [err |-> e, size |-> sz, temp |-> tempFile, final |-> finalFile, cleaned |-> TRUE]

\* the deferred cleanup of downloadFileViaTempFile: with err set the temp file
\* is removed, and a failed Remove replaces err
\* cleaned: no Remove failed
Cleanup(e, sz, tempFile, finalFile, env) ==
    IF e = "nil"
       THEN [err |-> e, size |-> sz, temp |-> tempFile, final |-> finalFile,
             cleaned |-> TRUE]
       ELSE IF Exists(tempFile) /\ env.cleanupOk
               THEN [err |-> e, size |-> sz, temp |-> NoFile, final |-> finalFile,
                     cleaned |-> TRUE]
               ELSE [err |-> "other", size |-> sz, temp |-> tempFile,
                     final |-> finalFile, cleaned |-> FALSE]

\* downloadFileViaTempFile: the temp path, removal of an old temp file,
\* downloadFile into the temp file, Rename to the final path
\* cleaned: the call got past the temp path and every Remove it made succeeded
downloadFileViaTempFile(d, tempFile, finalFile, env) ==
    IF ~env.newPathOk
       THEN [err |-> "other", size |-> 0, temp |-> tempFile, final |-> finalFile,
             cleaned |-> FALSE]
       ELSE IF Exists(tempFile) /\ ~env.removeOk
               THEN [Cleanup("other", 0, tempFile, finalFile, env)
                        EXCEPT !.cleaned = FALSE]
               ELSE LET r == downloadFile(d, env)
                    IN  IF r.err # "nil"
                           THEN Cleanup(r.err, r.size, r.file, finalFile, env)
                           ELSE IF ~env.renameOk
                                   THEN Cleanup("other", 0, r.file, finalFile, env)
                                   ELSE [err |-> "nil", size |-> r.size,
                                         temp |-> NoFile, final |-> r.file,
                                         cleaned |-> TRUE]

\* whether the attempt reaches httpClient.Get
IssuesGet(devnull, tempFile, env) ==
    devnull \/ (env.newPathOk /\ (Exists(tempFile) => env.removeOk) /\ env.openOk)

\* what the storage, the network and the file system may do during one
\* attempt: at most one of the steps before the Get fails; the storage answers
\* (200, 404, 500) or not (0); the body is copied in full or in part; the body
\* and the file close or not; Rename and Remove work or not
Envs ==
    {env \in [newPathOk : BOOLEAN, removeOk : BOOLEAN, openOk : BOOLEAN,
              status : {0, 200, 404, 500}, body : ServerBodies, copied : 0 .. 2,
              bodyCloseOk : BOOLEAN, closeOk : BOOLEAN, kept : 0 .. 2,
              renameOk : BOOLEAN, cleanupOk : BOOLEAN] :
        /\ env.copied <= Len(env.body)
        /\ env.kept <= env.copied
        /\ env.closeOk => env.kept = env.copied
        /\ env.status # 200 => env.body = <<1>> /\ env.copied = 0
        /\ env.status = 0 => env.bodyCloseOk
        /\ ~env.newPathOk => env.removeOk /\ env.openOk
        /\ ~env.removeOk => env.openOk
        /\ ~(env.newPathOk /\ env.removeOk /\ env.openOk) =>
              env.status = 0 /\ env.closeOk /\ env.renameOk}

\* one call of the function retry.Do retries, under env: downloadFileToDevnull
\* or downloadFileViaTempFile (finalFile {} stands for "final path unchanged")
AttemptResult(devnull, d, tempFile, env) ==
    LET r == IF devnull
                THEN LET x == downloadFileToDevnull(d, env)
                     IN  [err |-> x.err, size |-> x.size, temp |-> tempFile,
                          final |-> NoFile, cleaned |-> FALSE]
                ELSE downloadFileViaTempFile(d, tempFile, NoFile, env)
        get == IssuesGet(devnull, tempFile, env)
    IN  [err |-> r.err, size |-> r.size, temp |-> r.temp, final |-> r.final,
         get |-> get, got404 |-> get /\ env.status = 404,
         closeFailed |-> ~devnull /\ IssuesGet(devnull, tempFile, env) /\ ~env.closeOk,
         cleaned |-> r.cleaned]

\* contents a file can have: what the storage sends, in full or in part
Contents == UNION {{Prefix(c, k) : k \in 0 .. Len(c)} : c \in ServerBodies}

\* the results an attempt can have, for every behaviour of its surroundings
AttemptResults ==
    [devnull \in BOOLEAN, d \in RealDigests, tempFile \in {NoFile} \cup {{c} : c \in Contents}
        |-> {AttemptResult(devnull, d, tempFile, env) : env \in Envs}]

\* the attempt, for every behaviour of its surroundings; then retry.Do's
\* decision.  The ".temp" path of a digest is touched only by the worker that
\* holds the digest in currentDownloads, and the final path changes only in
\* Rename, so the attempt is one step
Attempt(w) ==
    /\ pc[w] = "attempt"
    /\ \E r \in AttemptResults[Devnull, sha[w], temp[sha[w]]] :
          /\ err' = [err EXCEPT ![w] = r.err]
          /\ size' = [size EXCEPT ![w] = r.size]
          /\ temp' = [temp EXCEPT ![sha[w]] = r.temp]
          /\ final' = IF Exists(r.final) THEN [final EXCEPT ![sha[w]] = r.final] ELSE final
          /\ tries' = [tries EXCEPT ![w] = @ + 1]
          /\ transient' = [transient EXCEPT ![w] =
                               IF r.err # "nil" /\ RetryIf(r.err) THEN @ + 1 ELSE @]
          /\ gets' = [gets EXCEPT ![w] = IF r.get THEN @ + 1 ELSE @]
          /\ first404' = [first404 EXCEPT ![w] =
                              IF tries[w] = 0 THEN r.got404 ELSE @]
          /\ lastTry' = [lastTry EXCEPT ![w] =
                             [status404 |-> r.got404, closeFailed |-> r.closeFailed,
                              cleaned |-> r.cleaned]]
          /\ pc' = [pc EXCEPT ![w] = RetryNextPc(n[w], r.err)]
    /\ UNCHANGED <<confVars, callVars, sentStats, callerVars, chanVars, statsVars, expectedDownloadCount,
                   wg, currentDownloads, sha, n, stat, why, delays>>

\* a panic raised below retry.Do (in the httpClient, in the runtime) after the
\* temp file was opened: nothing recovers it, so it unwinds downloadWorker;
\* the deferred functions run (the file is closed but not removed, err being
\* nil; client.wg.Done()), the statements after retry.Do do not
AttemptPanics(w) ==
    /\ pc[w] = "attempt"
    /\ pc' = [pc EXCEPT ![w] = "panicked"]
    /\ wg' = wg - 1
    /\ temp' = IF Devnull THEN temp ELSE [temp EXCEPT ![sha[w]] = {<<>>}]
    /\ UNCHANGED <<confVars, callVars, sentStats, callerVars, chanVars, statsVars, final,
                   expectedDownloadCount, currentDownloads, localVars>>

\* retry.Do: the sleep between two attempts, then the next attempt
RetryDelay(w) ==
    /\ pc[w] = "delay"
    /\ delays' = [delays EXCEPT ![w] = @ + 1]
    /\ n' = [n EXCEPT ![w] = @ + 1]
    /\ pc' = [pc EXCEPT ![w] = "attempt"]
    /\ UNCHANGED <<confVars, callVars, sentStats, callerVars, chanVars, statsVars, fileVars,
                   expectedDownloadCount, wg, currentDownloads, sha, err, size, stat,
                   why, tries, transient, gets, first404, lastTry>>

\* ResultStat that reports size and duration for a failed download too
ResultStatKeepsSize(w) ==
    IF err[w] # "nil"
       THEN DownStat(DOWN_FAIL, size[w], 1 + delays[w])
       ELSE DownStat(DOWN_OK, size[w], 1 + delays[w])

\* the DownStat for the err of retry.Do: DOWN_FAIL, or DOWN_OK with the size
\* and the duration (one unit per attempt that ran to its end, one per sleep)
ResultStat(w) ==
    IF err[w] # "nil"
       THEN DownStat(DOWN_FAIL, 0, 0)
       ELSE DownStat(DOWN_OK, size[w], 1 + delays[w])

\* the locals of the retry loop, forgotten once its DownStat is built
RetryForgotten(w) ==
    /\ n' = [n EXCEPT ![w] = 0]
    /\ err' = [err EXCEPT ![w] = "nil"]
    /\ size' = [size EXCEPT ![w] = 0]
    /\ delays' = [delays EXCEPT ![w] = 0]
    /\ tries' = [tries EXCEPT ![w] = 0]
    /\ transient' = [transient EXCEPT ![w] = 0]
    /\ gets' = [gets EXCEPT ![w] = 0]
    /\ first404' = [first404 EXCEPT ![w] = FALSE]
    /\ lastTry' = [lastTry EXCEPT ![w] = NoTry]

\* after retry.Do: the duration, client.currentDownloads.Del(sha), and the
\* DownStat for err
WorkerRelease(w) ==
    /\ pc[w] = "release"
    /\ currentDownloads' = Del(currentDownloads, sha[w])
    /\ Outcome(w, ResultStat(w), "fetched")
    /\ RetryForgotten(w)
    /\ UNCHANGED <<confVars, callVars, sentStats, callerVars, chanVars, statsVars, fileVars,
                   expectedDownloadCount, wg, sha>>

\* WorkerEmit with a return after a DOWN_FAIL
WorkerEmitStopsOnFail(w) ==
    /\ pc[w] = "emit"
    /\ Len(output) < ChanCap
    /\ output' = Append(output, stat[w])
    /\ sentStats' = TotalStat(sentStats.Size + stat[w].Size,
                              sentStats.Duration + stat[w].Duration,
                              sentStats.Count + 1, 0)
    /\ pc' = [pc EXCEPT ![w] = IF stat[w].Status = DOWN_FAIL THEN "exited" ELSE "recv"]
    /\ wg' = IF stat[w].Status = DOWN_FAIL THEN wg - 1 ELSE wg
    /\ Cleared(w)
    /\ UNCHANGED <<confVars, callVars, callerVars, input, outputClosed, statsVars, fileVars,
                   expectedDownloadCount, currentDownloads>>

\* downloadedFilesStat <- DownStat{...}; continue
WorkerEmit(w) ==
    /\ pc[w] = "emit"
    /\ Len(output) < ChanCap
    /\ output' = Append(output, stat[w])
    /\ sentStats' = IF stat[w].Status = DOWN_OK
                       THEN TotalStat(sentStats.Size + stat[w].Size,
                                      sentStats.Duration + stat[w].Duration,
                                      sentStats.Count + 1, 0)
                       ELSE TotalStat(sentStats.Size, sentStats.Duration,
                                      sentStats.Count + 1, 0)
    /\ pc' = [pc EXCEPT ![w] = "recv"]
    /\ Cleared(w)
    /\ UNCHANGED <<confVars, callVars, callerVars, input, outputClosed, statsVars, fileVars,
                   expectedDownloadCount, wg, currentDownloads>>

WorkerNext(w) ==
    \/ WorkerRecv(w)
    \/ WorkerClassify(w)
    \/ WorkerClaim(w)
    \/ Attempt(w)
    \/ AttemptPanics(w)
    \/ RetryDelay(w)
    \/ WorkerRelease(w)
    \/ WorkerEmit(w)

StatsNext == StatsInit \/ StatsRecv \/ StatsEnd

WaitNext == SendEndSignal \/ WaitClose \/ WaitReturn

Next ==
    \/ Start
    \/ \E d \in Digests : Download(d)
    \/ CallWait
    \/ WaitNext
    \/ StatsNext
    \/ \E w \in Workers : WorkerNext(w)

Spec == Init /\ [][Next]_vars

SpecPool == InitPool /\ [][Next]_vars

\* goroutines that can run do run; a caller inside Wait() goes on
FairSpecPool ==
    /\ SpecPool
    /\ WF_vars(WaitNext)
    /\ WF_vars(StatsNext)
    /\ \A w \in Workers : WF_vars(WorkerNext(w))

\* Download() called from MaxCallers goroutines at the same time
InitCallers ==
    /\ Devnull = TRUE
    /\ RetryAttempts = MaxAttempts
    /\ calls = MaxSubmit
    /\ final = [d \in RealDigests |-> NoFile]
    /\ temp = [d \in RealDigests |-> NoFile]
    /\ Created

NextCallers ==
    \/ Start
    \/ \E c \in Callers : DownloadLoad(c)
    \/ \E c \in Callers : DownloadStore(c)
    \/ \E c \in Callers : \E d \in Digests : DownloadSend(c, d)
    \/ CallWait
    \/ WaitNext
    \/ StatsNext
    \/ \E w \in Workers : WorkerNext(w)

SpecCallers == InitCallers /\ [][NextCallers]_vars

(***************************************************************************)
(* Properties.                                                             *)
(***************************************************************************)
\* the worker is between the successful ContainsOrAdd and the Del
InFetch(w) == pc[w] \in {"attempt", "delay", "release"}

\* retry.Do has returned to the worker
Fetched(w) == pc[w] = "release"

\* C1: when Wait() has returned, the Count of its TotalStat is the number of
\* Download() calls: every submitted digest gave exactly one DownStat
C1_CountIsSubmitted ==
    callerPc = "done" => result.Count = expectedDownloadCount

\* C2: when Wait() has returned, the expected count in its TotalStat is the
\* number of Download() calls, so Status() is true exactly when Count is
\* that number
C2_ExpectedIsSubmitted ==
    callerPc = "done" =>
        /\ result.expectedDownloadCount = expectedDownloadCount
        /\ Status(result) <=> (result.Count = expectedDownloadCount)

\* C3: no two workers are between the successful ContainsOrAdd and the Del
\* for the same digest
C3_OneFetchPerDigest ==
    \A v, w \in Workers :
        (v # w /\ InFetch(v) /\ InFetch(w)) => sha[v] # sha[w]

\* a worker is fetching a digest and another one skips it as in flight
C3_Witness ==
    \E v, w \in Workers :
        /\ InFetch(v)
        /\ pc[w] = "emit" /\ why[w] = "inflight" /\ stat[w].Status = DOWN_SKIP
        /\ sha[v] = sha[w]

\* C4: the file at the final path of a digest is absent or has content whose
\* sha256 is the digest
C4_FinalIsVerified ==
    \A d \in RealDigests : \A c \in final[d] : Sha256(c) = d

\* C5: when the GET of the first attempt for a digest was answered 404,
\* retry.Do returns after exactly one attempt and one GET, and the worker
\* sends DOWN_FAIL
C5_NotFoundOneAttempt ==
    \A w \in Workers :
        (Fetched(w) /\ first404[w]) =>
            (ResultStat(w).Status = DOWN_FAIL /\ tries[w] = 1 /\ gets[w] = 1)

\* C6: when every attempt for a digest returned an error other than a 404
\* downloadError, retry.Do made exactly RetryAttempts attempts and slept once
\* between each two of them, and the worker sends DOWN_FAIL
C6_RetryExhaustion ==
    \A w \in Workers :
        /\ pc[w] = "attempt" => delays[w] = tries[w]
        /\ (Fetched(w) /\ transient[w] = tries[w]) =>
               /\ tries[w] = RetryAttempts
               /\ delays[w] = RetryAttempts - 1
               /\ ResultStat(w).Status = DOWN_FAIL

\* all of several attempts failed with errors that are retried
C6_Witness ==
    \E w \in Workers :
        /\ Fetched(w) /\ transient[w] = tries[w]
        /\ tries[w] = RetryAttempts /\ RetryAttempts >= 2
        /\ ResultStat(w).Status = DOWN_FAIL

\* C7: a worker that finds the target file of its digest sends DOWN_SKIP; it
\* has issued no GET, made no attempt (so no temp file), and the step leaves
\* currentDownloads and the files alone
C7_SkipExisting ==
    /\ [](\A w \in Workers :
            (pc[w] = "emit" /\ why[w] = "exists") =>
                /\ stat[w] = DownStat(DOWN_SKIP, 0, 0)
                /\ gets[w] = 0 /\ tries[w] = 0
                /\ Exists(final[sha[w]]))
    /\ [][\A w \in Workers :
            (pc[w] = "classify" /\ Exists(final[sha[w]]) /\ pc'[w] # "classify") =>
                /\ pc'[w] = "emit"
                /\ why'[w] \in {"exists", "newpath"}
                /\ UNCHANGED <<currentDownloads, final, temp, gets, tries>>]_vars

\* a worker skips a digest whose file exists
C7_Witness ==
    \E w \in Workers :
        pc[w] = "emit" /\ why[w] = "exists" /\ sha[w] \notin currentDownloads

\* C8: when the last worker has exited no digest is left in the input queue
\* (every submitted digest was dequeued before), and Wait() goes on only after
\* every worker has exited
C8_QueueDrained ==
    /\ (\A w \in Workers : pc[w] \in {"exited", "panicked"}) =>
           \A i \in 1 .. Len(input) : input[i] = workerEnd
    /\ callerPc \in {"recvTotal", "done"} =>
           \A w \in Workers : pc[w] \in {"exited", "panicked"}

\* C9: a Wait() that was called returns
C9_WaitReturns == (callerPc = "sendEnd") ~> (callerPc = "done")

\* C10: currentDownloads holds exactly the digests of the workers that are
\* inside the fetch-with-retry sequence, on whatever path a worker left it;
\* it is empty when Wait() has returned
C10_InFlightIsFetching ==
    /\ currentDownloads = {sha[w] : w \in {v \in Workers : InFetch(v)}}
    /\ callerPc = "done" => currentDownloads = {}

\* the last attempt of retry.Do has returned to it
Tried(w) == pc[w] \in {"delay", "release"}

\* C11: retry.Do ends at the first attempt that succeeds, at the first one
\* whose response status is 404, or after RetryAttempts attempts; after any
\* other failed attempt it goes on while attempts remain; the DownStat is
\* DOWN_OK exactly when the last attempt succeeded, DOWN_FAIL otherwise
C11_RetryEnds ==
    \A w \in Workers :
        /\ pc[w] = "release" =>
               /\ err[w] = "nil" \/ lastTry[w].status404 \/ tries[w] = RetryAttempts
               /\ ResultStat(w).Status = IF err[w] = "nil" THEN DOWN_OK ELSE DOWN_FAIL
        /\ pc[w] = "delay" =>
               err[w] # "nil" /\ ~lastTry[w].status404 /\ tries[w] < RetryAttempts

\* C12: when a call of downloadFileViaTempFile that got past the temp path
\* has returned, with or without an error, and every Remove it made
\* succeeded, there is no file at the temp path - whether or not an old one
\* was there when the call began
C12_TempRemoved ==
    \A w \in Workers :
        (~Devnull /\ Tried(w) /\ lastTry[w].cleaned) => temp[sha[w]] = NoFile

\* an attempt failed after its GET, its cleanup worked, and the temp file is gone
C12_Witness ==
    \E w \in Workers :
        /\ ~Devnull /\ Tried(w) /\ lastTry[w].cleaned
        /\ err[w] # "nil" /\ gets[w] >= 1
        /\ temp[sha[w]] = NoFile

\* C13: the TotalStat Wait() returns has the sum of the sizes and the sum of
\* the durations of the DOWN_OK DownStats that were sent, and counts every
\* DownStat; a DOWN_SKIP or DOWN_FAIL DownStat carries no size and no
\* duration, whatever the failed attempts transferred
C13_TotalsAreCompleted ==
    /\ callerPc = "done" =>
           /\ result.Size = sentStats.Size
           /\ result.Duration = sentStats.Duration
           /\ result.Count = sentStats.Count
    /\ \A w \in Workers :
           (pc[w] = "emit" /\ stat[w].Status # DOWN_OK) =>
               (stat[w].Size = 0 /\ stat[w].Duration = 0)

\* Wait() returned the size of one completed download of digest 1 and a
\* count of two: the other DownStat added nothing but the count
C13_Witness ==
    /\ callerPc = "done"
    /\ result.Size = 1 /\ result.Duration >= 1 /\ result.Count = 2

\* C14: the step in which a worker sends DOWN_FAIL takes it back to the
\* receive on the input channel; it ends no worker and moves no other worker
C14_FailedGoesOn ==
    [][\A w \in Workers :
          (pc[w] = "emit" /\ stat[w].Status = DOWN_FAIL /\ pc'[w] # "emit") =>
              /\ pc'[w] = "recv"
              /\ wg' = wg
              /\ \A v \in Workers \ {w} : pc'[v] = pc[v]]_vars

\* the one digest submitted so far gave DOWN_FAIL, and every worker is at
\* the receive
C14_Witness ==
    /\ downloads = 1 /\ sentStats.Count = 1
    /\ output = <<DownStat(DOWN_FAIL, 0, 0)>>
    /\ wg = Max
    /\ \A w \in Workers : pc[w] = "recv"

\* C15: no worker has exited while the caller has not called Wait(), whatever
\* digests were given to Download(); when Wait() has returned every end marker
\* was consumed
C15_WorkersStay ==
    /\ callerPc = "running" => \A w \in Workers : pc[w] # "exited"
    /\ callerPc = "done" => input = <<>>

\* C16: with files written, no fetch of a digest succeeds when the file of
\* the digest is already at the final path: a digest is fetched successfully
\* at most once and has at most one DOWN_OK, however the steps of the workers
\* interleave
C16_OneCompleted ==
    [][\A w \in Workers :
          (~Devnull /\ pc[w] = "attempt" /\ pc'[w] = "release" /\ err'[w] = "nil") =>
              ~Exists(final[sha[w]])]_vars

\* C17: once pool.output is closed every worker has ended, so none sends on
\* it; and when processStats delivers the total it has counted every DownStat
\* that was sent
C17_NoSendAfterClose ==
    /\ outputClosed => \A w \in Workers : pc[w] \in {"exited", "panicked"}
    /\ statsPc = "done" => (output = <<>> /\ total.Count = sentStats.Count)

\* the total was delivered after the workers had sent two DownStats
C17_Witness ==
    /\ statsPc = "done" /\ outputClosed
    /\ sentStats.Count = 2 /\ total.Count = 2

\* C18: when no Download() call is running, client.expectedDownloadCount is
\* the number of Download() calls made, also when they ran at the same time
C18_NoLostIncrement ==
    (\A c \in Callers : call[c].pc = "idle") => expectedDownloadCount = downloads

\* C19: an attempt through the temp file in which out.Close() failed returns
\* an error (and so renames nothing)
C19_CloseFailureFails ==
    \A w \in Workers :
        (Tried(w) /\ lastTry[w].closeFailed) => err[w] # "nil"

\* C20: the error retry.RetryIf gets for an attempt whose response status was
\* 404 is one it rejects, whatever the cleanup of the attempt did
C20_NotFoundIsPermanent ==
    \A w \in Workers :
        (Tried(w) /\ lastTry[w].status404) => ~RetryIf(err[w])

=============================================================================
